---- MODULE Spec2Model ----
(***************************************************************************)
(* The slurm singularity execution of yorc                                 *)
(* (prov/slurm/execution_singularity.go): the dispatch of a runnable       *)
(* operation, the resolution of the container image against the            *)
(* repositories declared in the deployment, the composition of the srun /  *)
(* sbatch command and the construction of the job monitoring action.       *)
(*                                                                         *)
(* Go strings are TLA+ strings; positions are 1-based, 0 meaning "absent"  *)
(* where Go answers -1.  An error is the sequence of its messages, the     *)
(* outermost wrapper first; the nil error is the empty sequence.           *)
(***************************************************************************)
EXTENDS Integers, Sequences, FiniteSets, TLC

(***************************************************************************)
(* Bounds of the model.                                                    *)
(***************************************************************************)
\* the longest list of environment inputs of an operation
MaxInputs == 2

(***************************************************************************)
(* The Go standard library functions the code calls, on strings.           *)
(***************************************************************************)
Ch(s, i) == SubSeq(s, i, i)

\* strings.HasPrefix
HasPrefix(s, prefix) ==
    /\ Len(s) >= Len(prefix)
    /\ SubSeq(s, 1, Len(prefix)) = prefix

\* strings.HasSuffix
HasSuffix(s, suffix) ==
    /\ Len(s) >= Len(suffix)
    /\ SubSeq(s, Len(s) - Len(suffix) + 1, Len(s)) = suffix

\* the positions at which sep occurs in s
Occurrences(s, sep) ==
    {i \in 1..(Len(s) - Len(sep) + 1) : SubSeq(s, i, i + Len(sep) - 1) = sep}

Least(S) == CHOOSE i \in S : \A j \in S : i <= j

\* strings.Index: the first position of sep in s, 0 when s does not hold it
Index(s, sep) ==
    IF Occurrences(s, sep) = {} THEN 0 ELSE Least(Occurrences(s, sep))

\* strings.Split, for a non-empty sep: the pieces of s between the
\* occurrences of sep, left to right
RECURSIVE Split(_, _)
Split(s, sep) ==
    IF Index(s, sep) = 0
    THEN <<s>>
    ELSE <<SubSeq(s, 1, Index(s, sep) - 1)>>
         \o Split(SubSeq(s, Index(s, sep) + Len(sep), Len(s)), sep)

\* strings.Join
RECURSIVE Join(_, _)
Join(elems, sep) ==
    IF elems = <<>> THEN ""
    ELSE IF Len(elems) = 1 THEN elems[1]
    ELSE elems[1] \o sep \o Join(Tail(elems), sep)

UpperLetters == "ABCDEFGHIJKLMNOPQRSTUVWXYZ"

LowerLetters == "abcdefghijklmnopqrstuvwxyz"

\* the lower case letter of each upper case letter
UpperToLower ==
    [c \in {Ch(UpperLetters, i) : i \in 1..Len(UpperLetters)} |->
        Ch(LowerLetters, Index(UpperLetters, c))]

ToLowerCh(c) == IF c \in DOMAIN UpperToLower THEN UpperToLower[c] ELSE c

\* strings.ToLower, on ASCII
RECURSIVE ToLower(_)
ToLower(s) ==
    IF Len(s) = 0 THEN "" ELSE ToLowerCh(Ch(s, 1)) \o ToLower(SubSeq(s, 2, Len(s)))

\* strings.Trim(s, cutset): s without its leading and trailing characters
\* that are in cutset; an empty cutset removes nothing
RECURSIVE TrimLeft(_, _)
TrimLeft(s, cutset) ==
    IF Len(s) > 0 /\ Occurrences(cutset, Ch(s, 1)) # {}
    THEN TrimLeft(SubSeq(s, 2, Len(s)), cutset)
    ELSE s

RECURSIVE TrimRight(_, _)
TrimRight(s, cutset) ==
    IF Len(s) > 0 /\ Occurrences(cutset, Ch(s, Len(s))) # {}
    THEN TrimRight(SubSeq(s, 1, Len(s) - 1), cutset)
    ELSE s

Trim(s, cutset) == TrimRight(TrimLeft(s, cutset), cutset)

\* path.Clean, on the elements of a path: empty and "." elements go, a ".."
\* takes the element before it away, a ".." with nothing before it stays in
\* a relative path and goes in a rooted one
RECURSIVE CleanElems(_, _, _)
CleanElems(elems, out, rooted) ==
    IF elems = <<>> THEN out
    ELSE LET e == Head(elems) IN
         IF e = "" \/ e = "." THEN CleanElems(Tail(elems), out, rooted)
         ELSE IF e = ".."
         THEN IF out # <<>> /\ out[Len(out)] # ".."
              THEN CleanElems(Tail(elems), SubSeq(out, 1, Len(out) - 1), rooted)
              ELSE IF rooted
              THEN CleanElems(Tail(elems), out, rooted)
              ELSE CleanElems(Tail(elems), Append(out, ".."), rooted)
         ELSE CleanElems(Tail(elems), Append(out, e), rooted)

\* path.Clean
Clean(p) ==
    LET rooted == HasPrefix(p, "/")
        cleaned == (IF rooted THEN "/" ELSE "")
                   \o Join(CleanElems(Split(p, "/"), <<>>, rooted), "/")
    IN IF cleaned = "" THEN "." ELSE cleaned

\* path.Join: the elements from the first non-empty one on, joined by "/" and
\* cleaned; "" when every element is empty
RECURSIVE PathJoin(_)
PathJoin(elems) ==
    IF elems = <<>> THEN ""
    ELSE IF Head(elems) # "" THEN Clean(Join(elems, "/"))
    ELSE PathJoin(Tail(elems))

Letters == UpperLetters \o LowerLetters

SchemeChars == Letters \o "0123456789+-."

\* net/url getScheme: [scheme, rest, err] of a raw URL.  The scheme is the
\* run of scheme characters before the first ":"; a raw URL that starts with
\* ":" is an error, one that holds another character before any ":" has no
\* scheme.
RECURSIVE GetSchemeFrom(_, _)
GetSchemeFrom(raw, i) ==
    IF i > Len(raw) THEN [scheme |-> "", rest |-> raw, err |-> FALSE]
    ELSE LET c == Ch(raw, i) IN
         IF Occurrences(Letters, c) # {} THEN GetSchemeFrom(raw, i + 1)
         ELSE IF Occurrences(SchemeChars, c) # {}
         THEN IF i = 1
              THEN [scheme |-> "", rest |-> raw, err |-> FALSE]
              ELSE GetSchemeFrom(raw, i + 1)
         ELSE IF c = ":"
         THEN IF i = 1
              THEN [scheme |-> "", rest |-> "", err |-> TRUE]
              ELSE [scheme |-> SubSeq(raw, 1, i - 1),
                    rest |-> SubSeq(raw, i + 1, Len(raw)), err |-> FALSE]
         ELSE [scheme |-> "", rest |-> raw, err |-> FALSE]

\* net/url Parse, for raw URLs without fragment, query, user information,
\* escapes, control characters and bracketed hosts, and with numeric ports:
\* [err, Host].  A raw URL with a scheme and no leading "/" after it is
\* opaque and has no host; one without a scheme whose first path segment
\* holds a ":" is an error; the host is what lies between a leading "//" and
\* the next "/".
URLParse(raw) ==
    LET g == GetSchemeFrom(raw, 1)
        rest == g.rest
        colon == Index(rest, ":")
        slash == Index(rest, "/")
        authority == SubSeq(rest, 3, Len(rest))
        authEnd == Index(authority, "/")
    IN IF g.err THEN [err |-> TRUE, Host |-> ""]
       ELSE IF ~HasPrefix(rest, "/") /\ g.scheme # ""
       THEN [err |-> FALSE, Host |-> ""]
       ELSE IF ~HasPrefix(rest, "/") /\ colon > 0 /\ (slash = 0 \/ colon < slash)
       THEN [err |-> TRUE, Host |-> ""]
       ELSE IF HasPrefix(rest, "//") /\ (g.scheme # "" \/ ~HasPrefix(rest, "///"))
       THEN [err |-> FALSE,
             Host |-> IF authEnd = 0 THEN authority
                      ELSE SubSeq(authority, 1, authEnd - 1)]
       ELSE [err |-> FALSE, Host |-> ""]

(***************************************************************************)
(* Errors (github.com/pkg/errors).                                         *)
(***************************************************************************)
Nil == <<>>

\* errors.New, errors.Errorf
NewError(msg) == <<msg>>

\* errors.Wrap: nil for a nil error, else the message put before the cause
Wrap(err, msg) == IF err = Nil THEN Nil ELSE <<msg>> \o err

\* the %q verb of fmt, for a string that holds nothing to escape
Quote(s) == "\"" \o s \o "\""

(***************************************************************************)
(* The values the operations and the deployment are drawn from.            *)
(***************************************************************************)
\* the only operation executeAsync runs
RunnableRun == "tosca.interfaces.node.lifecycle.runnable.run"

MixedCaseRun == "Tosca.Interfaces.Node.Lifecycle.Runnable.Run"

OperationNames ==
    {RunnableRun, MixedCaseRun,
     "tosca.interfaces.node.lifecycle.runnable.submit",
     "tosca.interfaces.node.lifecycle.standard.create"}

DockerPrefix == "docker://"

ShubPrefix == "shub://"

\* the public registries buildImageURI leaves alone
DockerHubURL == "https://hub.docker.com/"

SingularityHubURL == "https://singularity-hub.org/"

\* the image names of the operation's implementation artifact: none, one of
\* each class, names of two classes at once, and names whose part after the
\* prefix is not a clean path or holds the prefix again
ImageNames ==
    {"", "ubuntu", "/opt/app.simg", "app.img",
     "docker://ubuntu", "docker://img", "docker://lib/app.img",
     "docker://a/docker://b",
     "docker://a//b/../c", "shub://org/img", "shub://org/x.simg"}

\* the URLs a declared repository may have: none, the public registries,
\* URLs with a host, URLs net/url parses without a host, and URLs it rejects
RepositoryURLs ==
    {"", DockerHubURL, SingularityHubURL, "http://h", "https://reg.io:5000/v2/",
     "reg.io/v2", "reg.io:5000", "10.0.0.1:5000", "://reg.io"}

RepositoryName == "repo1"

EnvInputPool ==
    {[Name |-> "exec_command", Value |-> "hostname"],
     [Name |-> "exec_command", Value |-> "date"],
     [Name |-> "exec_command", Value |-> ""],
     [Name |-> "N", Value |-> "1"]}

SeqsUpTo(S, n) == UNION {[1..k -> S] : k \in 0..n}

EnvInputLists == SeqsUpTo(EnvInputPool, MaxInputs)

\* the fields of an execution that executeAsync reads: the operation, the
\* primary implementation artifact, the environment inputs, the deployment
\* and the remote base directory
Execution(name, primary, inputs, dep) ==
    [Name |-> name, Primary |-> primary, EnvInputs |-> inputs,
     deploymentID |-> dep, OperationRemoteBaseDir |-> "/work"]

\* the executions: every operation on every image without inputs, and the
\* lists of inputs on an image of each kind
Executions ==
    {Execution(n, i, <<>>, "dep1") : n \in OperationNames, i \in ImageNames}
    \cup {Execution(n, i, inputs, "dep1") :
            n \in {RunnableRun, "tosca.interfaces.node.lifecycle.standard.create"},
            i \in {"", "app.img", "docker://ubuntu"},
            inputs \in EnvInputLists}

\* what a lookup in the deployment store answers: a value or an error
Answer(val, err) == [val |-> val, err |-> err]

LookupError == NewError("deployment store: lookup failed")

\* The deployment store, as far as buildImageURI reads it: the repository of
\* the implementation artifact, stored under the name of the operation it is
\* declared for, and the URL stored for that repository.
Store(op, repo, url) == [declaredFor |-> op, repository |-> repo, url |-> url]

Stores ==
    {Store(RunnableRun, Answer("", Nil), Answer("", Nil)),
     Store(RunnableRun, Answer("", LookupError), Answer("", Nil)),
     Store(RunnableRun, Answer(RepositoryName, Nil), Answer("", LookupError)),
     Store(MixedCaseRun, Answer(RepositoryName, Nil), Answer("http://h", Nil))}
    \cup {Store(RunnableRun, Answer(RepositoryName, Nil), Answer(u, Nil)) :
            u \in RepositoryURLs}

\* deployments.GetOperationImplementationRepository: the repository declared
\* for the operation of that name, none when nothing is stored under the
\* name; a store that fails does so whatever the name
GetOperationImplementationRepository(store, operationName) ==
    IF store.repository.err # Nil \/ operationName = store.declaredFor
    THEN store.repository
    ELSE Answer("", Nil)

\* deployments.GetRepositoryURLFromName
GetRepositoryURLFromName(store, repoName) ==
    IF repoName = RepositoryName THEN store.url ELSE Answer("", Nil)

\* what the slurm client answers to RunCommand: the output and the error
TransportError == NewError("Process exited with status 1")

CommandResponses ==
    {[output |-> "Submitted batch job 4821\n", err |-> Nil],
     [output |-> "", err |-> Nil],
     [output |-> "sbatch: error: invalid partition\n", err |-> TransportError],
     [output |-> "", err |-> TransportError]}

(***************************************************************************)
(* The job information.  buildJobInfo, fillJobCommandOpts,                 *)
(* parseOutputConfigFromOpts, parseJobIDFromBatchOutput, retrieveJobID,    *)
(* buildJobMonitoringAction and stringutil.UniqueTimestampedName are       *)
(* called by execution_singularity.go and defined elsewhere in the         *)
(* package: they are modelled by their contract.                           *)
(***************************************************************************)
\* the interval at which a submitted job is monitored
MonitoringTimeInterval == 5

\* jobInfo.inputs: the environment inputs as a map from name to value, a
\* later input of a name replacing an earlier one
RECURSIVE InputsMap(_)
InputsMap(envInputs) ==
    IF envInputs = <<>> THEN <<>>
    ELSE LET last == envInputs[Len(envInputs)]
             before == InputsMap(SubSeq(envInputs, 1, Len(envInputs) - 1))
         IN [k \in DOMAIN before \cup {last.Name} |->
                IF k = last.Name THEN last.Value ELSE before[k]]

\* what buildJobInfo reads from the node: the mode, the extra execution
\* arguments and the options of the job
JobSettings ==
    {[batchMode |-> TRUE, execArgs |-> <<>>, opts |-> <<>>],
     [batchMode |-> TRUE, execArgs |-> <<"--nv">>,
      opts |-> <<"--ntasks=2", "--output=res.out">>],
     [batchMode |-> FALSE, execArgs |-> <<"--nv", "-c">>,
      opts |-> <<"--ntasks=2">>]}

NoJobInfo ==
    [built |-> FALSE, ID |-> "", batchMode |-> FALSE, inputs |-> <<>>,
     execArgs |-> <<>>, opts |-> <<>>, outputs |-> <<>>,
     monitoringTimeInterval |-> 0]

\* the job information buildJobInfo leaves in the execution
NewJobInfo(settings, envInputs) ==
    [built |-> TRUE, ID |-> "", batchMode |-> settings.batchMode,
     inputs |-> InputsMap(envInputs), execArgs |-> settings.execArgs,
     opts |-> settings.opts, outputs |-> <<>>,
     monitoringTimeInterval |-> MonitoringTimeInterval]

JobInfoError == NewError("deployment store: node property lookup failed")

\* fillJobCommandOpts: the options of the job as one string
FillJobCommandOpts(info) == Join(info.opts, " ")

\* parseOutputConfigFromOpts: the files the options send the output to
RECURSIVE ParseOutputConfigFromOpts(_)
ParseOutputConfigFromOpts(opts) ==
    IF opts = <<>> THEN <<>>
    ELSE IF HasPrefix(Head(opts), "--output=")
    THEN <<SubSeq(Head(opts), Len("--output=") + 1, Len(Head(opts)))>>
         \o ParseOutputConfigFromOpts(Tail(opts))
    ELSE ParseOutputConfigFromOpts(Tail(opts))

WhiteSpace == {" ", "\n", "\t"}

\* the whitespace-delimited tokens of s from position i on, after the tokens
\* out and the characters cur of the token being read
RECURSIVE FieldsFrom(_, _, _, _)
FieldsFrom(s, i, cur, out) ==
    IF i > Len(s) THEN (IF cur = "" THEN out ELSE Append(out, cur))
    ELSE IF Ch(s, i) \in WhiteSpace
    THEN FieldsFrom(s, i + 1, "", IF cur = "" THEN out ELSE Append(out, cur))
    ELSE FieldsFrom(s, i + 1, cur \o Ch(s, i), out)

\* the whitespace-delimited tokens of s
Fields(s) == FieldsFrom(s, 1, "", <<>>)

JobIDParseError(output) ==
    NewError("Unable to parse the job ID from the sbatch output " \o Quote(output))

\* parseJobIDFromBatchOutput: the last token of the acknowledgment of sbatch
ParseJobIDFromBatchOutput(output) ==
    LET tokens == Fields(output) IN
    IF tokens = <<>>
    THEN [ID |-> "", err |-> JobIDParseError(output)]
    ELSE [ID |-> tokens[Len(tokens)], err |-> Nil]

\* stringutil.UniqueTimestampedName: a name the given time stamp qualifies
UniqueTimestampedName(prefix, suffix, stamp) ==
    prefix \o ToString(stamp) \o suffix

\* what retrieveJobID finds for an interactive job: its identifier or an error
RetrievedJobIDs == {"4822"}

RetrieveJobIDError == NewError("Unable to retrieve the job ID")

NilAction == [built |-> FALSE, deploymentID |-> "", jobID |-> "", timeInterval |-> 0]

\* buildJobMonitoringAction: the action the monitoring of the job is given
BuildJobMonitoringActionOf(deploymentID, info) ==
    [built |-> TRUE, deploymentID |-> deploymentID, jobID |-> info.ID,
     timeInterval |-> info.monitoringTimeInterval]

\* what buildJobMonitoringAction may return: the action of the job, and for
\* a job without identifier that action or none, the call having no error to
\* return
BuildJobMonitoringActions(deploymentID, info) ==
    IF info.ID = ""
    THEN {NilAction, BuildJobMonitoringActionOf(deploymentID, info)}
    ELSE {BuildJobMonitoringActionOf(deploymentID, info)}

(***************************************************************************)
(* The singularity information and the resolution of the image.            *)
(***************************************************************************)
NoSingularityInfo ==
    [built |-> FALSE, command |-> "", exec |-> "", imageName |-> "", imageURI |-> ""]

\* buildSingularityInfo keeping the first exec_command input it finds
RECURSIVE ScanEnvInputsFirst(_, _)
ScanEnvInputsFirst(envInputs, info) ==
    IF envInputs = <<>> THEN info
    ELSE ScanEnvInputsFirst(Tail(envInputs),
            IF /\ Head(envInputs).Name = "exec_command"
               /\ Head(envInputs).Value # ""
               /\ info.command = ""
            THEN [info EXCEPT !.exec = Head(envInputs).Value, !.command = "exec"]
            ELSE info)

\* buildSingularityInfo, the loop over the environment inputs: every
\* non-empty exec_command input sets the command to run in the container
RECURSIVE ScanEnvInputs(_, _)
ScanEnvInputs(envInputs, info) ==
    IF envInputs = <<>> THEN info
    ELSE ScanEnvInputs(Tail(envInputs),
            IF Head(envInputs).Name = "exec_command" /\ Head(envInputs).Value # ""
            THEN [info EXCEPT !.exec = Head(envInputs).Value, !.command = "exec"]
            ELSE info)

ImageNameError ==
    NewError("The image name is mandatory and must be filled in the operation artifact implementation")

\* buildSingularityInfo without its check of the image name
SingularityInfoUnchecked(envInputs, primary) ==
    LET scanned == ScanEnvInputs(envInputs, NoSingularityInfo)
        named == [scanned EXCEPT !.imageName = primary]
    IN [info |-> [named EXCEPT !.built = TRUE,
                     !.command = IF named.command = "" THEN "run" ELSE named.command],
        err |-> Nil]

\* buildSingularityInfo up to its call of resolveContainerImage: the
\* singularity information of the execution, or the error for a missing image
SingularityInfoOf(envInputs, primary) ==
    LET scanned == ScanEnvInputs(envInputs, NoSingularityInfo)
        named == [scanned EXCEPT !.imageName = primary]
    IN IF primary = ""
       THEN [info |-> NoSingularityInfo, err |-> ImageNameError]
       ELSE [info |-> [named EXCEPT !.built = TRUE,
                          !.command = IF named.command = "" THEN "run"
                                      ELSE named.command],
             err |-> Nil]

FileClass == "file"

NoClass == ""

\* resolveContainerImage knowing the .img suffix only
ImageClassImgOnly(imageName) ==
    IF HasPrefix(imageName, "docker://") THEN "docker://"
    ELSE IF HasPrefix(imageName, "shub://") THEN "shub://"
    ELSE IF HasSuffix(imageName, ".img") THEN "file"
    ELSE ""

\* resolveContainerImage with the case of the image files first
ImageClassFilesFirst(imageName) ==
    IF HasSuffix(imageName, ".simg") \/ HasSuffix(imageName, ".img") THEN "file"
    ELSE IF HasPrefix(imageName, "docker://") THEN "docker://"
    ELSE IF HasPrefix(imageName, "shub://") THEN "shub://"
    ELSE ""

\* resolveContainerImage, the cases of its switch in their order: the prefix
\* buildImageURI is called with, FileClass for an image file, NoClass for a
\* name the switch does not know
ImageClass(imageName) ==
    IF HasPrefix(imageName, DockerPrefix) THEN DockerPrefix
    ELSE IF HasPrefix(imageName, ShubPrefix) THEN ShubPrefix
    ELSE IF HasSuffix(imageName, ".simg") \/ HasSuffix(imageName, ".img")
    THEN FileClass
    ELSE NoClass

UnresolvableError(imageName) ==
    NewError("Unable to resolve container image URI from image name:" \o Quote(imageName))

URLParseError(repoURL) == NewError("parse " \o repoURL \o ": invalid URL")

\* buildImageURI for a repository with a URL that is not a public registry:
\* the host of the URL joined with the second piece of the image name split
\* at the prefix
HostImageURI(imageName, prefix, repoURL) ==
    prefix \o PathJoin(<<URLParse(repoURL).Host, Split(imageName, prefix)[2]>>)

\* buildImageURI leaving the image URI unset for a repository without URL
ImageURIUnsetWithoutURL(imageName, prefix, repoURL) ==
    IF repoURL = DockerHubURL \/ repoURL = SingularityHubURL
    THEN [imageURI |-> imageName, err |-> Nil]
    ELSE IF repoURL # ""
    THEN IF URLParse(repoURL).err
         THEN [imageURI |-> "", err |-> URLParseError(repoURL)]
         ELSE [imageURI |-> HostImageURI(imageName, prefix, repoURL), err |-> Nil]
    ELSE [imageURI |-> "", err |-> Nil]

\* buildImageURI leaving alone the public registry of the prefix only
ImageURIOwnRegistryOnly(imageName, prefix, repoURL) ==
    IF \/ prefix = DockerPrefix /\ repoURL = DockerHubURL
       \/ prefix = ShubPrefix /\ repoURL = SingularityHubURL
    THEN [imageURI |-> imageName, err |-> Nil]
    ELSE IF repoURL # ""
    THEN IF URLParse(repoURL).err
         THEN [imageURI |-> "", err |-> URLParseError(repoURL)]
         ELSE [imageURI |-> HostImageURI(imageName, prefix, repoURL), err |-> Nil]
    ELSE [imageURI |-> imageName, err |-> Nil]

\* buildImageURI once the URL of the declared repository is known:
\* [imageURI, err]
ImageURIOf(imageName, prefix, repoURL) ==
    IF repoURL = DockerHubURL \/ repoURL = SingularityHubURL
    THEN [imageURI |-> imageName, err |-> Nil]
    ELSE IF repoURL # ""
    THEN IF URLParse(repoURL).err
         THEN [imageURI |-> "", err |-> URLParseError(repoURL)]
         ELSE [imageURI |-> HostImageURI(imageName, prefix, repoURL), err |-> Nil]
    ELSE [imageURI |-> imageName, err |-> Nil]

(***************************************************************************)
(* The commands.                                                           *)
(***************************************************************************)
\* the sequences that hold every element of S once
Orders(S) == {o \in [1..Cardinality(S) -> S] : \A x \in S : \E i \in DOMAIN o : o[i] = x}

\* the export statements of the inputs, in the order the map is ranged over
RECURSIVE Exports(_, _)
Exports(inputs, order) ==
    IF order = <<>> THEN ""
    ELSE "export " \o Head(order) \o "=" \o inputs[Head(order)] \o ";"
         \o Exports(inputs, Tail(order))

\* runBatchMode: the command given to the client
BatchCommand(exports, opts, info, baseDir) ==
    LET innerCmd == exports \o "srun " \o opts \o " singularity " \o info.command
                    \o " " \o info.imageURI \o " " \o info.exec
    IN "mkdir -p " \o baseDir \o ";cd " \o baseDir
       \o ";sbatch --wrap=\"" \o innerCmd \o "\""

\* runInteractiveMode: the command given to the client
InteractiveCommand(exports, opts, info, execArgs, redirectFile) ==
    Trim(exports \o "srun " \o opts \o " singularity " \o info.command \o " "
         \o Join(execArgs, " ") \o " " \o info.imageURI \o " " \o info.exec
         \o " > " \o redirectFile \o " &", "")

(***************************************************************************)
(* The state: the executions, each with the position of its executeAsync,  *)
(* the deployment store, and what the collaborators have been asked.       *)
(***************************************************************************)
\* the executions that may run side by side
Procs == {1, 2}

VARIABLES
    kv,               \* the deployment store
    e,                \* e[p]: the fields execution p is constructed with
    pc,               \* pc[p]: where executeAsync of execution p stands
    jobInfo,          \* jobInfo[p]: e.jobInfo
    singularityInfo,  \* singularityInfo[p]: e.singularityInfo
    remoteExecDir,    \* remoteExecDir[p]: e.OperationRemoteExecDir
    local,            \* local[p]: the local variables of the calls in progress
    transport,        \* transport[p]: the calls of client.RunCommand, in order
    lookups,          \* lookups[p]: the lookups in the deployment store, in order
    events,           \* events[p]: the log entries registered, in order
    stamp,            \* the time stamp the next unique name is given
    stages,           \* stages[p]: the stages executeAsync went through
    result            \* result[p]: what executeAsync returned

vars == <<kv, e, pc, jobInfo, singularityInfo, remoteExecDir, local, transport,
          lookups, events, stamp, stages, result>>

\* The storage of logs and events in Elasticsearch (es_utils.go) is another
\* part of the program, with a state of its own.
VARIABLES
    cluster,          \* the names of the indices the Elasticsearch cluster holds
    initCall,         \* initCall[c]: the call c of initStorageIndex
    queryCall         \* the call of doQueryEs

esVars == <<cluster, initCall, queryCall>>

\* the callers that may initialise the storage side by side
Callers == {1, 2}

\* a call of initStorageIndex: its argument, the requests it sent with the
\* status each was answered with, and what it returned
NoInitCall == [pc |-> "absent", indexName |-> "", requests |-> <<>>,
               returned |-> FALSE, panicked |-> FALSE, err |-> <<>>]

\* the call of doQueryEs: its arguments, the search it asked for, what the
\* search answered, and the four values it returns
NoQueryCall ==
    [pc |-> "absent", index |-> "", query |-> "", waitIndex |-> 0, size |-> 0,
     order |-> "", search |-> <<>>, answer |-> <<>>, returned |-> FALSE,
     hits |-> 0, values |-> <<>>, lastIndex |-> 0, err |-> <<>>]

\* nothing is asked of Elasticsearch
NoElastic ==
    /\ cluster = {}
    /\ initCall = [c \in Callers |-> NoInitCall]
    /\ queryCall = NoQueryCall

NoExecution == Execution("", "", <<>>, "")

NoLocal == [prefix |-> "", repoName |-> "", opts |-> "", cmd |-> "", redirectFile |-> ""]

NoResult == [returned |-> FALSE, action |-> NilAction, interval |-> 0, err |-> Nil]

\* the state in which the executions es (a function on Procs, NoExecution
\* for an execution that does not exist) are constructed over the store
Constructed(store, es) ==
    /\ kv = store
    /\ e = es
    /\ pc = [p \in Procs |-> IF es[p] = NoExecution THEN "absent" ELSE "ready"]
    /\ jobInfo = [p \in Procs |-> NoJobInfo]
    /\ singularityInfo = [p \in Procs |-> NoSingularityInfo]
    /\ remoteExecDir = [p \in Procs |-> ""]
    /\ local = [p \in Procs |-> NoLocal]
    /\ transport = [p \in Procs |-> <<>>]
    /\ lookups = [p \in Procs |-> <<>>]
    /\ events = [p \in Procs |-> <<>>]
    /\ stamp = 1
    /\ stages = [p \in Procs |-> <<>>]
    /\ result = [p \in Procs |-> NoResult]

\* one execution, of any operation, over any store
Init ==
    /\ \E store \in Stores, x \in Executions :
         Constructed(store, [p \in Procs |-> IF p = 1 THEN x ELSE NoExecution])
    /\ NoElastic

\* executeAsync returns an error: no action and no interval
ReturnError(p, err) ==
    /\ result' = [result EXCEPT ![p] =
                    [returned |-> TRUE, action |-> NilAction, interval |-> 0,
                     err |-> err]]
    /\ pc' = [pc EXCEPT ![p] = "done"]

\* executeAsync returns an error of runJobCommand: the error is registered
\* as a log entry of the deployment and returned wrapped
ReturnRunError(p, err) ==
    /\ events' = [events EXCEPT ![p] =
                    Append(@, [level |-> "ERROR", deploymentID |-> e[p].deploymentID,
                               format |-> "%s", arg |-> err])]
    /\ ReturnError(p, Wrap(err, "failed to run command"))

Stage(p, name) == stages' = [stages EXCEPT ![p] = Append(@, name)]

\* executeAsync comparing the beginning of the name only
SupportedByInterface(name) ==
    HasPrefix(ToLower(name), "tosca.interfaces.node.lifecycle.runnable.")

\* the operation names executeAsync runs
Supported(name) == ToLower(name) = RunnableRun

\* executeAsync, the switch on the name of the operation
ExecuteAsync(p) ==
    /\ pc[p] = "ready"
    /\ Stage(p, "executeAsync")
    /\ IF Supported(e[p].Name)
       THEN /\ pc' = [pc EXCEPT ![p] = "buildJobInfo"]
            /\ UNCHANGED result
       ELSE ReturnError(p, NewError("Unsupported operation " \o Quote(e[p].Name)))
    /\ UNCHANGED <<kv, e, jobInfo, singularityInfo, remoteExecDir, local,
                   transport, lookups, events, stamp>>
    /\ UNCHANGED esVars

\* executeAsync, the call of buildJobInfo
BuildJobInfo(p) ==
    /\ pc[p] = "buildJobInfo"
    /\ Stage(p, "buildJobInfo")
    /\ \/ /\ \E settings \in JobSettings :
                jobInfo' = [jobInfo EXCEPT ![p] = NewJobInfo(settings, e[p].EnvInputs)]
          /\ pc' = [pc EXCEPT ![p] = "buildSingularityInfo"]
          /\ UNCHANGED result
       \/ /\ ReturnError(p, Wrap(JobInfoError, "failed to build job information"))
          /\ UNCHANGED jobInfo
    /\ UNCHANGED <<kv, e, singularityInfo, remoteExecDir, local, transport,
                   lookups, events, stamp>>
    /\ UNCHANGED esVars

\* executeAsync, the call of buildSingularityInfo, and resolveContainerImage
\* up to the lookup of buildImageURI
BuildSingularityInfo(p) ==
    LET built == SingularityInfoOf(e[p].EnvInputs, e[p].Primary)
        class == ImageClass(built.info.imageName)
    IN
    /\ pc[p] = "buildSingularityInfo"
    /\ Stage(p, "buildSingularityInfo")
    /\ IF built.err # Nil
       THEN /\ ReturnError(p, Wrap(built.err, "failed to build singularity information"))
            /\ UNCHANGED <<singularityInfo, local>>
       ELSE IF class = NoClass
       THEN /\ singularityInfo' = [singularityInfo EXCEPT ![p] = built.info]
            /\ ReturnError(p, Wrap(UnresolvableError(built.info.imageName),
                                   "failed to build singularity information"))
            /\ UNCHANGED local
       ELSE IF class = FileClass
       THEN /\ singularityInfo' = [singularityInfo EXCEPT ![p] =
                    [built.info EXCEPT !.imageURI = built.info.imageName]]
            /\ pc' = [pc EXCEPT ![p] = "runJobCommand"]
            /\ UNCHANGED <<result, local>>
       ELSE /\ singularityInfo' = [singularityInfo EXCEPT ![p] = built.info]
            /\ local' = [local EXCEPT ![p].prefix = class]
            /\ pc' = [pc EXCEPT ![p] = "getRepository"]
            /\ UNCHANGED result
    /\ UNCHANGED <<kv, e, jobInfo, remoteExecDir, transport, lookups, events, stamp>>
    /\ UNCHANGED esVars

\* buildImageURI, the lookup of the repository of the implementation
GetRepository(p) ==
    LET found == GetOperationImplementationRepository(kv, e[p].Name) IN
    /\ pc[p] = "getRepository"
    /\ Stage(p, "getRepository")
    /\ lookups' = [lookups EXCEPT ![p] =
                     Append(@, [what |-> "repository", key |-> e[p].Name,
                                answer |-> found])]
    /\ IF found.err # Nil
       THEN /\ ReturnError(p, Wrap(found.err, "failed to build singularity information"))
            /\ UNCHANGED <<singularityInfo, local>>
       ELSE IF found.val = ""
       THEN /\ singularityInfo' = [singularityInfo EXCEPT ![p].imageURI =
                                      singularityInfo[p].imageName]
            /\ pc' = [pc EXCEPT ![p] = "runJobCommand"]
            /\ UNCHANGED <<result, local>>
       ELSE /\ local' = [local EXCEPT ![p].repoName = found.val]
            /\ pc' = [pc EXCEPT ![p] = "getRepositoryURL"]
            /\ UNCHANGED <<result, singularityInfo>>
    /\ UNCHANGED <<kv, e, jobInfo, remoteExecDir, transport, events, stamp>>
    /\ UNCHANGED esVars

\* buildImageURI, the lookup of the URL of the repository and the image URI
GetRepositoryURL(p) ==
    LET found == GetRepositoryURLFromName(kv, local[p].repoName)
        uri == ImageURIOf(singularityInfo[p].imageName, local[p].prefix, found.val)
    IN
    /\ pc[p] = "getRepositoryURL"
    /\ Stage(p, "getRepositoryURL")
    /\ lookups' = [lookups EXCEPT ![p] =
                     Append(@, [what |-> "url", key |-> local[p].repoName,
                                answer |-> found])]
    /\ IF found.err # Nil
       THEN /\ ReturnError(p, Wrap(found.err, "failed to build singularity information"))
            /\ UNCHANGED singularityInfo
       ELSE IF uri.err # Nil
       THEN /\ ReturnError(p, Wrap(uri.err, "failed to build singularity information"))
            /\ UNCHANGED singularityInfo
       ELSE /\ singularityInfo' = [singularityInfo EXCEPT ![p].imageURI = uri.imageURI]
            /\ pc' = [pc EXCEPT ![p] = "runJobCommand"]
            /\ UNCHANGED result
    /\ UNCHANGED <<kv, e, jobInfo, remoteExecDir, local, transport, events, stamp>>
    /\ UNCHANGED esVars

RunTheCommand(p, cmd) ==
    [level |-> "INFO", deploymentID |-> e[p].deploymentID,
     format |-> "Run the command: %q", arg |-> cmd]

\* runBatchMode putting the extra execution arguments into its command
ComposeBatchWithArgs(p, opts) ==
    /\ jobInfo[p].batchMode
    /\ \E order \in Orders(DOMAIN jobInfo[p].inputs) :
         LET cmd == "mkdir -p " \o e[p].OperationRemoteBaseDir \o ";cd "
                    \o e[p].OperationRemoteBaseDir \o ";sbatch --wrap=\""
                    \o Exports(jobInfo[p].inputs, order) \o "srun " \o opts
                    \o " singularity " \o singularityInfo[p].command \o " "
                    \o Join(jobInfo[p].execArgs, " ") \o " "
                    \o singularityInfo[p].imageURI \o " "
                    \o singularityInfo[p].exec \o "\""
         IN /\ local' = [local EXCEPT ![p].opts = opts, ![p].cmd = cmd]
            /\ events' = [events EXCEPT ![p] = Append(@, RunTheCommand(p, cmd))]
    /\ jobInfo' = [jobInfo EXCEPT ![p].outputs =
                      ParseOutputConfigFromOpts(jobInfo[p].opts)]
    /\ UNCHANGED stamp

\* runJobCommand up to the call of the client, in batch mode: the outputs
\* the options name, and runBatchMode composing its command
ComposeBatch(p, opts) ==
    /\ jobInfo[p].batchMode
    /\ \E order \in Orders(DOMAIN jobInfo[p].inputs) :
         LET cmd == BatchCommand(Exports(jobInfo[p].inputs, order), opts,
                                 singularityInfo[p], e[p].OperationRemoteBaseDir)
         IN /\ local' = [local EXCEPT ![p].opts = opts, ![p].cmd = cmd]
            /\ events' = [events EXCEPT ![p] = Append(@, RunTheCommand(p, cmd))]
    /\ jobInfo' = [jobInfo EXCEPT ![p].outputs =
                      ParseOutputConfigFromOpts(jobInfo[p].opts)]
    /\ UNCHANGED stamp

\* runInteractiveMode leaving the outputs of the job as they are
ComposeInteractiveKeepingOutputs(p, opts) ==
    /\ ~jobInfo[p].batchMode
    /\ \E order \in Orders(DOMAIN jobInfo[p].inputs) :
         LET redirectFile == UniqueTimestampedName("yorc_", "", stamp)
             cmd == InteractiveCommand(Exports(jobInfo[p].inputs, order), opts,
                                       singularityInfo[p], jobInfo[p].execArgs,
                                       redirectFile)
         IN /\ local' = [local EXCEPT ![p].opts = opts, ![p].cmd = cmd,
                                      ![p].redirectFile = redirectFile]
            /\ events' = [events EXCEPT ![p] = Append(@, RunTheCommand(p, cmd))]
    /\ UNCHANGED jobInfo
    /\ stamp' = stamp + 1

\* runJobCommand up to the call of the client, in interactive mode:
\* runInteractiveMode naming the file of the output and composing its command
ComposeInteractive(p, opts) ==
    /\ ~jobInfo[p].batchMode
    /\ \E order \in Orders(DOMAIN jobInfo[p].inputs) :
         LET redirectFile == UniqueTimestampedName("yorc_", "", stamp)
             cmd == InteractiveCommand(Exports(jobInfo[p].inputs, order), opts,
                                       singularityInfo[p], jobInfo[p].execArgs,
                                       redirectFile)
         IN /\ local' = [local EXCEPT ![p].opts = opts, ![p].cmd = cmd,
                                      ![p].redirectFile = redirectFile]
            /\ jobInfo' = [jobInfo EXCEPT ![p].outputs = <<redirectFile>>]
            /\ events' = [events EXCEPT ![p] = Append(@, RunTheCommand(p, cmd))]
    /\ stamp' = stamp + 1

\* runJobCommand with one remote execution directory for all executions
RunJobCommandSharedDir(p) ==
    /\ pc[p] = "runJobCommand"
    /\ Stage(p, "runJobCommand")
    /\ remoteExecDir' = [q \in Procs |-> e[p].OperationRemoteBaseDir]
    /\ \/ ComposeBatch(p, FillJobCommandOpts(jobInfo[p]))
       \/ ComposeInteractive(p, FillJobCommandOpts(jobInfo[p]))
    /\ pc' = [pc EXCEPT ![p] = "runCommand"]
    /\ UNCHANGED <<kv, e, singularityInfo, transport, lookups, result>>
    /\ UNCHANGED esVars

\* executeAsync, the call of runJobCommand, up to the call of the client
RunJobCommand(p) ==
    /\ pc[p] = "runJobCommand"
    /\ Stage(p, "runJobCommand")
    /\ remoteExecDir' = [remoteExecDir EXCEPT ![p] = e[p].OperationRemoteBaseDir]
    /\ \/ ComposeBatch(p, FillJobCommandOpts(jobInfo[p]))
       \/ ComposeInteractive(p, FillJobCommandOpts(jobInfo[p]))
    /\ pc' = [pc EXCEPT ![p] = "runCommand"]
    /\ UNCHANGED <<kv, e, singularityInfo, transport, lookups, result>>
    /\ UNCHANGED esVars

\* runBatchMode giving the command again when the client fails
BatchAnsweredRetrying(p, resp) ==
    LET parsed == ParseJobIDFromBatchOutput(Trim(resp.output, "\n")) IN
    /\ jobInfo[p].batchMode
    /\ IF resp.err # Nil
       THEN UNCHANGED <<pc, events, result, jobInfo>>
       ELSE /\ jobInfo' = [jobInfo EXCEPT ![p].ID = parsed.ID]
            /\ IF parsed.err # Nil
               THEN ReturnRunError(p, parsed.err)
               ELSE /\ pc' = [pc EXCEPT ![p] = "buildJobMonitoringAction"]
                    /\ UNCHANGED <<events, result>>

\* runBatchMode dropping the error of parseJobIDFromBatchOutput
BatchAnsweredUnparsed(p, resp) ==
    LET parsed == ParseJobIDFromBatchOutput(Trim(resp.output, "\n")) IN
    /\ jobInfo[p].batchMode
    /\ IF resp.err # Nil
       THEN /\ ReturnRunError(p, Wrap(resp.err, resp.output))
            /\ UNCHANGED jobInfo
       ELSE /\ jobInfo' = [jobInfo EXCEPT ![p].ID = parsed.ID]
            /\ pc' = [pc EXCEPT ![p] = "buildJobMonitoringAction"]
            /\ UNCHANGED <<events, result>>

\* runBatchMode taking the first token of the output for the job identifier
BatchAnsweredFirstToken(p, resp) ==
    LET tokens == Fields(Trim(resp.output, "\n")) IN
    /\ jobInfo[p].batchMode
    /\ IF resp.err # Nil
       THEN /\ ReturnRunError(p, Wrap(resp.err, resp.output))
            /\ UNCHANGED jobInfo
       ELSE IF tokens = <<>>
       THEN /\ ReturnRunError(p, JobIDParseError(Trim(resp.output, "\n")))
            /\ UNCHANGED jobInfo
       ELSE /\ jobInfo' = [jobInfo EXCEPT ![p].ID = tokens[1]]
            /\ pc' = [pc EXCEPT ![p] = "buildJobMonitoringAction"]
            /\ UNCHANGED <<events, result>>

\* runBatchMode after the client answered resp
BatchAnswered(p, resp) ==
    LET parsed == ParseJobIDFromBatchOutput(Trim(resp.output, "\n")) IN
    /\ jobInfo[p].batchMode
    /\ IF resp.err # Nil
       THEN /\ ReturnRunError(p, Wrap(resp.err, resp.output))
            /\ UNCHANGED jobInfo
       ELSE /\ jobInfo' = [jobInfo EXCEPT ![p].ID = parsed.ID]
            /\ IF parsed.err # Nil
               THEN ReturnRunError(p, parsed.err)
               ELSE /\ pc' = [pc EXCEPT ![p] = "buildJobMonitoringAction"]
                    /\ UNCHANGED <<events, result>>

\* runInteractiveMode going on whatever the client answered
InteractiveAnsweredSwallowing(p, resp) ==
    /\ ~jobInfo[p].batchMode
    /\ pc' = [pc EXCEPT ![p] = "retrieveJobID"]
    /\ UNCHANGED <<events, result, jobInfo>>

\* runInteractiveMode after the client answered resp
InteractiveAnswered(p, resp) ==
    /\ ~jobInfo[p].batchMode
    /\ IF resp.err # Nil
       THEN ReturnRunError(p, Wrap(resp.err, resp.output))
       ELSE /\ pc' = [pc EXCEPT ![p] = "retrieveJobID"]
            /\ UNCHANGED <<events, result>>
    /\ UNCHANGED jobInfo

\* the call of client.RunCommand with the composed command, and what
\* runBatchMode or runInteractiveMode does with its answer
RunCommand(p) ==
    /\ pc[p] = "runCommand"
    /\ Stage(p, "runCommand")
    /\ \E resp \in CommandResponses :
         /\ transport' = [transport EXCEPT ![p] =
                            Append(@, [cmd |-> local[p].cmd, output |-> resp.output,
                                       err |-> resp.err])]
         /\ \/ BatchAnswered(p, resp)
            \/ InteractiveAnswered(p, resp)
    /\ UNCHANGED <<kv, e, singularityInfo, remoteExecDir, local, lookups, stamp>>
    /\ UNCHANGED esVars

\* runJobCommand, the call of retrieveJobID after runInteractiveMode
RetrieveJobID(p) ==
    /\ pc[p] = "retrieveJobID"
    /\ Stage(p, "retrieveJobID")
    /\ \/ /\ \E id \in RetrievedJobIDs : jobInfo' = [jobInfo EXCEPT ![p].ID = id]
          /\ pc' = [pc EXCEPT ![p] = "buildJobMonitoringAction"]
          /\ UNCHANGED <<events, result>>
       \/ /\ ReturnRunError(p, RetrieveJobIDError)
          /\ UNCHANGED jobInfo
    /\ UNCHANGED <<kv, e, singularityInfo, remoteExecDir, local, transport,
                   lookups, stamp>>
    /\ UNCHANGED esVars

\* executeAsync, the return of the monitoring action and its interval: the
\* action is all buildJobMonitoringAction returns, and the error is nil
BuildJobMonitoringAction(p) ==
    /\ pc[p] = "buildJobMonitoringAction"
    /\ Stage(p, "buildJobMonitoringAction")
    /\ \E action \in BuildJobMonitoringActions(e[p].deploymentID, jobInfo[p]) :
         result' = [result EXCEPT ![p] =
                      [returned |-> TRUE,
                       action |-> action,
                       interval |-> jobInfo[p].monitoringTimeInterval,
                       err |-> Nil]]
    /\ pc' = [pc EXCEPT ![p] = "done"]
    /\ UNCHANGED <<kv, e, jobInfo, singularityInfo, remoteExecDir, local,
                   transport, lookups, events, stamp>>
    /\ UNCHANGED esVars

Next ==
    \E p \in Procs :
        \/ ExecuteAsync(p)
        \/ BuildJobInfo(p)
        \/ BuildSingularityInfo(p)
        \/ GetRepository(p)
        \/ GetRepositoryURL(p)
        \/ RunJobCommand(p)
        \/ RunCommand(p)
        \/ RetrieveJobID(p)
        \/ BuildJobMonitoringAction(p)

Spec == Init /\ [][Next]_<<vars, esVars>>

(***************************************************************************)
(* Two executions side by side, of the same operation on the same node of  *)
(* the same deployment, the name of the operation in its canonical letter  *)
(* case for the one and in mixed case for the other.                       *)
(***************************************************************************)
PairExecutions ==
    {Execution(RunnableRun, i, inputs, "dep1") :
        i \in {"ubuntu", "app.img", "docker://ubuntu"},
        inputs \in {<<>>, <<[Name |-> "exec_command", Value |-> "hostname"]>>}}

InitPair ==
    /\ \E store \in Stores, x \in PairExecutions :
         Constructed(store, [p \in Procs |->
                               IF p = 1 THEN x ELSE [x EXCEPT !.Name = MixedCaseRun]])
    /\ NoElastic

SpecPair == InitPair /\ [][Next]_<<vars, esVars>>

(***************************************************************************)
(* Two executions side by side, each an object of its own, of the runnable *)
(* run operation on nodes of two deployments over one deployment store.    *)
(***************************************************************************)
BothExecutions ==
    {Execution(RunnableRun, i, inputs, "dep1") :
        i \in {"app.img", "docker://ubuntu"},
        inputs \in {<<>>, <<[Name |-> "exec_command", Value |-> "hostname"]>>}}

BothStores ==
    {Store(RunnableRun, Answer("", Nil), Answer("", Nil)),
     Store(RunnableRun, Answer(RepositoryName, Nil), Answer("http://h", Nil)),
     Store(RunnableRun, Answer(RepositoryName, Nil), Answer("", LookupError))}

InitBoth ==
    /\ \E store \in BothStores, x \in BothExecutions, y \in BothExecutions :
         Constructed(store, [p \in Procs |->
                               IF p = 1 THEN x
                               ELSE [y EXCEPT !.deploymentID = "dep2",
                                              !.OperationRemoteBaseDir = "/work2"]])
    /\ NoElastic

SpecBoth == InitBoth /\ [][Next]_<<vars, esVars>>

(***************************************************************************)
(* buildJobMonitoringAction called for a job of any identifier, none       *)
(* included: the last step of executeAsync on its own.                     *)
(***************************************************************************)
HandleExecutions ==
    {Execution(RunnableRun, i, <<>>, dep) :
        i \in {"app.img", "docker://ubuntu", "shub://org/img"},
        dep \in {"dep1", "dep2"}}

HandleJobIDs == {"", "4821", "4822"}

InitHandle ==
    /\ \E x \in HandleExecutions, settings \in JobSettings, id \in HandleJobIDs :
         /\ kv = Store(RunnableRun, Answer("", Nil), Answer("", Nil))
         /\ e = [p \in Procs |-> IF p = 1 THEN x ELSE NoExecution]
         /\ pc = [p \in Procs |->
                    IF p = 1 THEN "buildJobMonitoringAction" ELSE "absent"]
         /\ jobInfo = [p \in Procs |->
                         IF p = 1
                         THEN [NewJobInfo(settings, x.EnvInputs) EXCEPT !.ID = id]
                         ELSE NoJobInfo]
    /\ singularityInfo = [p \in Procs |-> NoSingularityInfo]
    /\ remoteExecDir = [p \in Procs |-> ""]
    /\ local = [p \in Procs |-> NoLocal]
    /\ transport = [p \in Procs |-> <<>>]
    /\ lookups = [p \in Procs |-> <<>>]
    /\ events = [p \in Procs |-> <<>>]
    /\ stamp = 1
    /\ stages = [p \in Procs |-> <<>>]
    /\ result = [p \in Procs |-> NoResult]
    /\ NoElastic

NextHandle == \E p \in Procs : BuildJobMonitoringAction(p)

SpecHandle == InitHandle /\ [][NextHandle]_<<vars, esVars>>

(***************************************************************************)
(* The storage in Elasticsearch, es_utils.go: the answers of the cluster.  *)
(***************************************************************************)
\* the most hits a search is answered with
MaxHits == 2

\* no execution is constructed
NoDispatch ==
    Constructed(Store(RunnableRun, Answer("", Nil), Answer("", Nil)),
                [p \in Procs |-> NoExecution])

\* the request did not reach the cluster, or its answer did not come back
RequestError == NewError("dial tcp 127.0.0.1:9200: connect: connection refused")

\* the body of a response is not JSON
DecodeError == NewError("invalid character '<' looking for beginning of value")

\* esapi.Response.IsError
IsError(res) == res.StatusCode > 299

\* handleESResponseError: the error of the request wrapped, an error for a
\* response that is one, nil otherwise
HandleESResponseError(res, requestDescription, query, requestError) ==
    IF requestError # Nil
    THEN Wrap(requestError, "Error while sending " \o requestDescription
                            \o ", query was: " \o query)
    ELSE IF IsError(res)
    THEN IF ~res.decodable
         THEN Wrap(DecodeError,
                   "An error was returned by ES while sending <" \o requestDescription
                   \o ">, status was " \o ToString(res.StatusCode)
                   \o ", but the response cannot be decoded, query was: " \o query)
         ELSE NewError("An error was returned by ES while sending "
                       \o requestDescription \o ", status was "
                       \o ToString(res.StatusCode) \o ", query was: " \o query)
    ELSE Nil

Digits == <<"0", "1", "2", "3", "4", "5", "6", "7", "8", "9">>

IsDigit(c) == \E i \in DOMAIN Digits : Digits[i] = c

DigitValue(c) == (CHOOSE i \in DOMAIN Digits : Digits[i] = c) - 1

\* the number the digits of s from position i on make of n
RECURSIVE ParseDigits(_, _, _)
ParseDigits(s, i, n) ==
    IF i > Len(s) THEN n ELSE ParseDigits(s, i + 1, n * 10 + DigitValue(Ch(s, i)))

\* parseInt64StringToUint64: the number a string of digits writes, an error
\* for any other string
ParseInt64StringToUint64(str) ==
    IF str = "" \/ \E i \in 1..Len(str) : ~IsDigit(Ch(str, i))
    THEN [val |-> 0,
          err |-> NewError("strconv.ParseInt: parsing " \o Quote(str)
                           \o ": invalid syntax")]
    ELSE [val |-> ParseDigits(str, 1, 0), err |-> Nil]

\* the values of waitIndex doQueryEs is called with
WaitIndexes == {0, 5}

\* the iid of the documents of the index, all after the waitIndex of the
\* query, one of them no number
Iids == {"6", "7", "9", "x"}

\* a hit of a search: the identifier of the document and the iid of its source
Hit(iid) == [id |-> "doc-" \o iid, iid |-> iid]

\* the hits are sorted on iid in the order the search asked for
SortedOn(hits, order) ==
    \A i, j \in DOMAIN hits :
        /\ i < j
        /\ ParseInt64StringToUint64(hits[i].iid).err = Nil
        /\ ParseInt64StringToUint64(hits[j].iid).err = Nil
        => IF order = "asc"
           THEN ParseInt64StringToUint64(hits[i].iid).val
                < ParseInt64StringToUint64(hits[j].iid).val
           ELSE ParseInt64StringToUint64(hits[i].iid).val
                > ParseInt64StringToUint64(hits[j].iid).val

\* the lists of hits a search sorted in that order may answer with
HitLists(order) ==
    {hits \in SeqsUpTo({Hit(iid) : iid \in Iids}, MaxHits) :
        /\ SortedOn(hits, order)
        /\ \A i, j \in DOMAIN hits : i # j => hits[i] # hits[j]}

\* what c.Search returns: an error and no response, a response that is an
\* error, a response whose body does not decode, or the total and the hits
SearchAnswers(order) ==
    {[err |-> RequestError, StatusCode |-> 0, decodable |-> FALSE, total |-> 0,
      hits |-> <<>>]}
    \cup {[err |-> Nil, StatusCode |-> code, decodable |-> d, total |-> 0,
           hits |-> <<>>] : code \in {400, 503}, d \in BOOLEAN}
    \cup {[err |-> Nil, StatusCode |-> 200, decodable |-> FALSE, total |-> 0,
           hits |-> <<>>]}
    \cup {[err |-> Nil, StatusCode |-> 200, decodable |-> TRUE,
           total |-> Len(hits) + more, hits |-> hits] :
             hits \in HitLists(order), more \in {0, 1}}

\* decodeEsQueryResponse: the values of the hits whose iid is a number, and
\* the iid of the last of them, from the values and the index so far
RECURSIVE DecodeEsQueryResponse(_, _, _)
DecodeEsQueryResponse(hits, values, lastIndex) ==
    IF hits = <<>> THEN [values |-> values, lastIndex |-> lastIndex]
    ELSE LET hit == Head(hits)
             parsed == ParseInt64StringToUint64(hit.iid)
         IN IF parsed.err # Nil
            THEN DecodeEsQueryResponse(Tail(hits), values, lastIndex)
            ELSE DecodeEsQueryResponse(
                    Tail(hits),
                    Append(values, [Key |-> hit.id, LastModifyIndex |-> parsed.val,
                                    Value |-> [iid |-> hit.iid]]),
                    parsed.val)

(***************************************************************************)
(* doQueryEs.                                                              *)
(***************************************************************************)
\* doQueryEs returns: hits, values, lastIndex and err as they stand
QueryReturns(call, answer) ==
    [call EXCEPT !.pc = "done", !.answer = <<answer>>, !.returned = TRUE]

\* doQueryEs up to its search: lastIndex is waitIndex, and the search is
\* sorted on iid in the order given
DoQueryEs ==
    /\ queryCall.pc = "ready"
    /\ queryCall' = [queryCall EXCEPT
                       !.pc = "search",
                       !.lastIndex = queryCall.waitIndex,
                       !.search = <<[index |-> queryCall.index,
                                     size |-> queryCall.size,
                                     body |-> queryCall.query,
                                     sort |-> "iid:" \o queryCall.order]>>]
    /\ UNCHANGED <<cluster, initCall>>
    /\ UNCHANGED vars

\* the search returned an error: the named result err, nil so far, is
\* wrapped and returned
SearchFailed ==
    /\ queryCall.pc = "search"
    /\ \E answer \in SearchAnswers(queryCall.order) :
         /\ answer.err # Nil
         /\ queryCall' = QueryReturns(
                [queryCall EXCEPT !.err =
                    Wrap(queryCall.err,
                         "Failed to perform ES search on index " \o queryCall.index
                         \o ", query was: <" \o queryCall.query \o ">, error was: "
                         \o "<nil>")],
                answer)
    /\ UNCHANGED <<cluster, initCall>>
    /\ UNCHANGED vars

\* the search returned a response handleESResponseError makes an error of
SearchRefused ==
    /\ queryCall.pc = "search"
    /\ \E answer \in SearchAnswers(queryCall.order) :
         LET err == HandleESResponseError(answer, "Search:" \o queryCall.index,
                                          queryCall.query, answer.err)
         IN /\ answer.err = Nil
            /\ err # Nil
            /\ queryCall' = QueryReturns([queryCall EXCEPT !.err = err], answer)
    /\ UNCHANGED <<cluster, initCall>>
    /\ UNCHANGED vars

\* the body of the response does not decode
SearchUndecoded ==
    /\ queryCall.pc = "search"
    /\ \E answer \in SearchAnswers(queryCall.order) :
         /\ answer.err = Nil
         /\ ~IsError(answer)
         /\ ~answer.decodable
         /\ queryCall' = QueryReturns(
                [queryCall EXCEPT !.err =
                    Wrap(DecodeError,
                         "Not able to decode ES response while performing ES search on index "
                         \o queryCall.index \o ", query was: <" \o queryCall.query
                         \o ">, response code was " \o ToString(answer.StatusCode))],
                answer)
    /\ UNCHANGED <<cluster, initCall>>
    /\ UNCHANGED vars

\* the response decodes: the total of the hits, and the values and the last
\* index decodeEsQueryResponse makes of them
SearchDecoded ==
    /\ queryCall.pc = "search"
    /\ \E answer \in SearchAnswers(queryCall.order) :
         LET decoded == DecodeEsQueryResponse(answer.hits, queryCall.values, 0) IN
         /\ answer.err = Nil
         /\ ~IsError(answer)
         /\ answer.decodable
         /\ queryCall' = QueryReturns(
                [queryCall EXCEPT !.hits = answer.total,
                                  !.values = decoded.values,
                                  !.lastIndex = decoded.lastIndex,
                                  !.err = Nil],
                answer)
    /\ UNCHANGED <<cluster, initCall>>
    /\ UNCHANGED vars

\* doQueryEs called on the index of the logs
InitQuery ==
    /\ NoDispatch
    /\ cluster = {"logs"}
    /\ initCall = [c \in Callers |-> NoInitCall]
    /\ \E waitIndex \in WaitIndexes, order \in {"asc", "desc"} :
         queryCall = [NoQueryCall EXCEPT !.pc = "ready", !.index = "logs",
                                         !.query = "{}", !.waitIndex = waitIndex,
                                         !.size = MaxHits, !.order = order]

NextQuery ==
    \/ DoQueryEs
    \/ SearchFailed
    \/ SearchRefused
    \/ SearchUndecoded
    \/ SearchDecoded

SpecQuery == InitQuery /\ [][NextQuery]_<<vars, esVars>>

(***************************************************************************)
(* initStorageIndex.                                                       *)
(***************************************************************************)
\* the names of the indexes of the storage
IndexNames == {"logs", "events"}

\* the status of a cluster that cannot serve the request
Unavailable == 503

\* the status of the creation of an index that exists
AlreadyExists == 400

\* a request sent and the response to it
Request(kind, StatusCode) == [kind |-> kind, StatusCode |-> StatusCode]

\* the responses of the cluster to IndicesExistsRequest: the index is found,
\* or it is not, or the cluster cannot serve
ExistsResponses(indexName) ==
    {[StatusCode |-> IF indexName \in cluster THEN 200 ELSE 404,
      decodable |-> TRUE]}
    \cup {[StatusCode |-> Unavailable, decodable |-> d] : d \in BOOLEAN}

\* the responses of the cluster to IndicesCreateRequest: it creates an index
\* it does not hold, refuses one it holds, or cannot serve
CreateResponses(indexName) ==
    {[StatusCode |-> IF indexName \in cluster THEN AlreadyExists ELSE 200,
      decodable |-> TRUE]}
    \cup {[StatusCode |-> Unavailable, decodable |-> d] : d \in BOOLEAN}

\* initStorageIndex returns err
InitReturns(call, err) ==
    [call EXCEPT !.pc = "done", !.returned = TRUE, !.err = err]

\* res is nil when the request returned an error: res.Body of the defer
\* statement panics
InitPanics(call, kind) ==
    [call EXCEPT !.pc = "panicked", !.panicked = TRUE,
                 !.requests = Append(call.requests, Request(kind, 0))]

\* initStorageIndex up to its create request: the existence of the index is
\* asked, 200 returns nil, 404 goes on to create it, another status returns
\* the error handleESResponseError makes of it
InitStorageIndex(c) ==
    /\ initCall[c].pc = "ready"
    /\ LET call == initCall[c]
           description == "IndicesExistsRequest:" \o call.indexName
       IN \/ initCall' = [initCall EXCEPT ![c] = InitPanics(call, "exists")]
          \/ \E res \in ExistsResponses(call.indexName) :
               LET asked == [call EXCEPT !.requests =
                               Append(call.requests,
                                      Request("exists", res.StatusCode))]
               IN initCall' = [initCall EXCEPT ![c] =
                    IF res.StatusCode = 200 THEN InitReturns(asked, Nil)
                    ELSE IF res.StatusCode = 404
                    THEN [asked EXCEPT !.pc = "create"]
                    ELSE InitReturns(asked,
                            HandleESResponseError(res, description, "", Nil))]
    /\ UNCHANGED <<cluster, queryCall>>
    /\ UNCHANGED vars

\* initStorageIndex from its create request on: the index is created by the
\* cluster that answers 200, and the outcome of the request is returned
IndicesCreateRequest(c) ==
    /\ initCall[c].pc = "create"
    /\ LET call == initCall[c]
           description == "IndicesCreateRequest:" \o call.indexName
       IN \/ /\ initCall' = [initCall EXCEPT ![c] = InitPanics(call, "create")]
             /\ UNCHANGED cluster
          \/ \E res \in CreateResponses(call.indexName) :
               LET asked == [call EXCEPT !.requests =
                               Append(call.requests,
                                      Request("create", res.StatusCode))]
               IN /\ initCall' = [initCall EXCEPT ![c] =
                        InitReturns(asked,
                            HandleESResponseError(res, description,
                                                  "{\"settings\":{}}", Nil))]
                  /\ cluster' = IF res.StatusCode = 200
                                THEN cluster \cup {call.indexName}
                                ELSE cluster
    /\ UNCHANGED queryCall
    /\ UNCHANGED vars

\* initStorageIndex called by one caller, or by two side by side, on a
\* cluster that holds some of the indexes
InitInitIndex ==
    /\ NoDispatch
    /\ cluster \in SUBSET IndexNames
    /\ queryCall = NoQueryCall
    /\ \E first \in IndexNames :
         \/ initCall = [c \in Callers |->
                          IF c = 1
                          THEN [NoInitCall EXCEPT !.pc = "ready",
                                                  !.indexName = first]
                          ELSE NoInitCall]
         \/ \E second \in IndexNames :
              initCall = [c \in Callers |->
                            [NoInitCall EXCEPT !.pc = "ready",
                                               !.indexName =
                                                  IF c = 1 THEN first ELSE second]]

NextInitIndex ==
    \E c \in Callers :
        \/ InitStorageIndex(c)
        \/ IndicesCreateRequest(c)

SpecInitIndex == InitInitIndex /\ [][NextInitIndex]_<<vars, esVars>>

(***************************************************************************)
(* What the properties below read of an execution.                         *)
(***************************************************************************)
Exists(p) == pc[p] # "absent"

Went(p, stage) == \E i \in DOMAIN stages[p] : stages[p][i] = stage

Returned(p) == result[p].returned

\* the part of an image name after its prefix
AfterPrefix(imageName, prefix) == SubSeq(imageName, Len(prefix) + 1, Len(imageName))

BuildFailure == "failed to build singularity information"

\* the names of operations that are not the runnable run operation
OtherOperations ==
    {n \in OperationNames :
        ToLower(n) # "tosca.interfaces.node.lifecycle.runnable.run"}

\* the place of a stage in the order of the stages
StageRank(stage) ==
    CASE stage = "executeAsync" -> 1
      [] stage = "buildJobInfo" -> 2
      [] stage = "buildSingularityInfo" -> 3
      [] stage = "getRepository" -> 4
      [] stage = "getRepositoryURL" -> 5
      [] stage = "runJobCommand" -> 6
      [] stage = "runCommand" -> 7
      [] stage = "retrieveJobID" -> 8
      [] stage = "buildJobMonitoringAction" -> 9

\* the error of buildSingularityInfo for an empty image name
MissingImageName ==
    "The image name is mandatory and must be filled in the operation artifact implementation"

(***************************************************************************)
(* C1.  An operation whose name is not, letter case aside, the runnable    *)
(* run operation: executeAsync returns the unsupported operation error     *)
(* with no action and a zero interval, and nothing else happens: no        *)
(* command is run, nothing is looked up in the deployment store, no log    *)
(* entry is registered, no job or singularity information is built.        *)
(***************************************************************************)
C1_UnsupportedOperation ==
    \A p \in Procs :
        Exists(p) /\ e[p].Name \in OtherOperations =>
            /\ pc[p] \in {"ready", "done"}
            /\ transport[p] = <<>>
            /\ lookups[p] = <<>>
            /\ events[p] = <<>>
            /\ jobInfo[p] = NoJobInfo
            /\ singularityInfo[p] = NoSingularityInfo
            /\ remoteExecDir[p] = ""
            /\ local[p] = NoLocal
            /\ pc[p] = "ready" => result[p] = NoResult
            /\ pc[p] = "done" =>
                 result[p] = [returned |-> TRUE, action |-> NilAction, interval |-> 0,
                              err |-> <<"Unsupported operation \"" \o e[p].Name \o "\"">>]

C1_Witness ==
    \E p \in Procs :
        /\ pc[p] = "done"
        /\ e[p].Name = "tosca.interfaces.node.lifecycle.runnable.submit"
        /\ result[p].err # Nil

(***************************************************************************)
(* C2.  From runJobCommand to the return of executeAsync the command is    *)
(* given to the client exactly once, in batch and in interactive mode,     *)
(* whether the client fails or not: never twice, and once for every        *)
(* execution that went through runJobCommand and returned.                 *)
(***************************************************************************)
C2_OneRemoteExecution ==
    \A p \in Procs :
        /\ Len(transport[p]) <= 1
        /\ transport[p] # <<>> => Went(p, "runJobCommand")
        /\ Went(p, "runJobCommand") /\ pc[p] # "runCommand" => Len(transport[p]) = 1
        /\ Went(p, "runJobCommand") /\ pc[p] = "runCommand" => transport[p] = <<>>

C2_Witness ==
    \E p \in Procs :
        /\ pc[p] = "done"
        /\ jobInfo[p].batchMode
        /\ Len(transport[p]) = 1
        /\ transport[p][1].err # Nil

(***************************************************************************)
(* C3.  The stages of an execution run in their order and the first        *)
(* failure ends it.  A failure to build the singularity information: no    *)
(* command is composed and none is run.  A failure of the client: no       *)
(* output is read and no job identifier assigned.  A failure to read the   *)
(* job identifier: no action is built.  Every failure returns no action    *)
(* and a zero interval, and an action is returned only after every         *)
(* earlier stage succeeded.                                                *)
(***************************************************************************)
C3_StagesInOrder ==
    \A p \in Procs :
        LET failed == Returned(p) /\ result[p].err # Nil IN
        /\ \A i, j \in DOMAIN stages[p] :
             i < j => StageRank(stages[p][i]) < StageRank(stages[p][j])
        /\ Returned(p) <=> pc[p] = "done"
        /\ failed => result[p].action = NilAction /\ result[p].interval = 0
        /\ failed /\ result[p].err[1] = BuildFailure =>
             /\ local[p].cmd = ""
             /\ transport[p] = <<>>
             /\ ~Went(p, "runJobCommand")
        /\ transport[p] # <<>> /\ transport[p][1].err # Nil =>
             /\ failed
             /\ jobInfo[p].ID = ""
             /\ stages[p][Len(stages[p])] = "runCommand"
        /\ Returned(p) /\ jobInfo[p].ID = "" => result[p].action = NilAction
        /\ result[p].action # NilAction =>
             /\ result[p].err = Nil
             /\ \A stage \in {"executeAsync", "buildJobInfo", "buildSingularityInfo",
                              "runJobCommand", "runCommand", "buildJobMonitoringAction"} :
                    Went(p, stage)
             /\ jobInfo[p].built
             /\ singularityInfo[p].built
             /\ singularityInfo[p].imageURI # ""
             /\ Len(transport[p]) = 1
             /\ transport[p][1].err = Nil
             /\ transport[p][1].cmd = local[p].cmd
             /\ jobInfo[p].ID # ""
             /\ result[p].action.jobID = jobInfo[p].ID
             /\ result[p].interval = jobInfo[p].monitoringTimeInterval

\* the client accepted the batch command and its output names no job
C3_Witness ==
    \E p \in Procs :
        /\ pc[p] = "done"
        /\ jobInfo[p].batchMode
        /\ transport[p] # <<>>
        /\ transport[p][1].err = Nil
        /\ transport[p][1].output = ""
        /\ result[p].err # Nil

(***************************************************************************)
(* C4, as stated: an execution whose image name is empty always fails      *)
(* with the error of the missing image name, and before that nothing is    *)
(* looked up, no command is composed and none is run.                      *)
(***************************************************************************)
C4_AlwaysMissingImageName ==
    \A p \in Procs :
        pc[p] = "done" /\ e[p].Primary = "" =>
            /\ result[p].err # Nil
            /\ result[p].err[Len(result[p].err)] = MissingImageName
            /\ lookups[p] = <<>>
            /\ local[p].cmd = ""
            /\ transport[p] = <<>>

(***************************************************************************)
(* C4, amended.  An execution whose image name is empty fails, and nothing *)
(* is looked up, no command is composed and none is run; when it is of the *)
(* runnable run operation and its job information was built, it fails in   *)
(* buildSingularityInfo with the error of the missing image name, and no   *)
(* singularity information is left.                                        *)
(***************************************************************************)
C4_EmptyImageName ==
    \A p \in Procs :
        Exists(p) /\ e[p].Primary = "" =>
            /\ lookups[p] = <<>>
            /\ local[p].cmd = ""
            /\ transport[p] = <<>>
            /\ pc[p] \in {"ready", "buildJobInfo", "buildSingularityInfo", "done"}
            /\ pc[p] = "done" =>
                 /\ result[p].err # Nil
                 /\ result[p].action = NilAction
                 /\ result[p].interval = 0
            /\ Went(p, "buildSingularityInfo") =>
                 /\ pc[p] = "done"
                 /\ result[p].err = <<BuildFailure, MissingImageName>>
                 /\ singularityInfo[p] = NoSingularityInfo

C4_Witness ==
    \E p \in Procs :
        /\ pc[p] = "done"
        /\ e[p].Primary = ""
        /\ Went(p, "buildSingularityInfo")
        /\ result[p].err = <<BuildFailure, MissingImageName>>

(***************************************************************************)
(* C5.  Whenever a command is composed or given to the client, in either   *)
(* mode, the image URI of the singularity information is set, and the      *)
(* command holds it.                                                       *)
(***************************************************************************)
C5_ImageURISet ==
    \A p \in Procs :
        \/ pc[p] \in {"runJobCommand", "runCommand", "retrieveJobID",
                      "buildJobMonitoringAction"}
        \/ local[p].cmd # ""
        \/ transport[p] # <<>>
        => /\ singularityInfo[p].built
           /\ singularityInfo[p].imageURI # ""
           /\ \A i \in DOMAIN transport[p] :
                Occurrences(transport[p][i].cmd,
                            " " \o singularityInfo[p].imageURI \o " ") # {}

C5_Witness ==
    \E p \in Procs :
        /\ transport[p] # <<>>
        /\ lookups[p] # <<>>
        /\ lookups[p][Len(lookups[p])].answer.val = ""
        /\ singularityInfo[p].imageURI = "docker://ubuntu"

(***************************************************************************)
(* What the properties on the resolution of the image read.                *)
(***************************************************************************)
IsImageFile(imageName) ==
    HasSuffix(imageName, ".simg") \/ HasSuffix(imageName, ".img")

HasImagePrefix(imageName) ==
    HasPrefix(imageName, "docker://") \/ HasPrefix(imageName, "shub://")

PrefixOf(imageName) ==
    IF HasPrefix(imageName, "docker://") THEN "docker://" ELSE "shub://"

\* buildSingularityInfo was called and did not fail, and the lookups of
\* buildImageURI are over
Resolved(p) ==
    /\ Went(p, "buildSingularityInfo")
    /\ pc[p] \notin {"getRepository", "getRepositoryURL"}
    /\ ~(Returned(p) /\ result[p].err # Nil /\ result[p].err[1] = BuildFailure)

\* the repository of the implementation was looked up and found to be val
RepositoryFound(p, val) ==
    /\ lookups[p] # <<>>
    /\ lookups[p][1].answer = [val |-> val, err |-> <<>>]

\* the URL of the repository was looked up and found to be val
URLFound(p, val) ==
    /\ Len(lookups[p]) = 2
    /\ lookups[p][2].answer = [val |-> val, err |-> <<>>]

\* the public registry of the prefix of an image name, and the other one
OwnRegistry(imageName) ==
    IF HasPrefix(imageName, "docker://")
    THEN "https://hub.docker.com/" ELSE "https://singularity-hub.org/"

OtherRegistry(imageName) ==
    IF HasPrefix(imageName, "docker://")
    THEN "https://singularity-hub.org/" ELSE "https://hub.docker.com/"

OtherRegistryHost(imageName) ==
    IF HasPrefix(imageName, "docker://") THEN "singularity-hub.org" ELSE "hub.docker.com"

(***************************************************************************)
(* C7, as stated: for an image name prefix + S and a declared repository   *)
(* whose URL has the host H, the image URI is prefix + H + "/" + S, for    *)
(* every S and every URL that is not left alone.                           *)
(***************************************************************************)
C7_HostSubstituted ==
    \A p \in Procs :
        \A u \in RepositoryURLs \ {"", "https://hub.docker.com/",
                                   "https://singularity-hub.org/"} :
            Resolved(p) /\ URLFound(p, u) =>
                singularityInfo[p].imageURI =
                    PrefixOf(e[p].Primary) \o URLParse(u).Host \o "/"
                    \o AfterPrefix(e[p].Primary, PrefixOf(e[p].Primary))

(***************************************************************************)
(* C8, as stated: every image name that ends in .simg or .img resolves     *)
(* to itself, and nothing is looked up for it.                             *)
(***************************************************************************)
C8_EveryImageFile ==
    \A p \in Procs :
        Exists(p) /\ IsImageFile(e[p].Primary) =>
            /\ lookups[p] = <<>>
            /\ Resolved(p) => singularityInfo[p].imageURI = e[p].Primary

(***************************************************************************)
(* C8, amended.  Every image name that ends in .simg or .img and does not  *)
(* begin with docker:// or shub:// resolves to itself, whatever repository *)
(* is declared, and nothing is looked up for it.                           *)
(***************************************************************************)
C8_ImageFile ==
    \A p \in Procs :
        Exists(p) /\ IsImageFile(e[p].Primary) /\ ~HasImagePrefix(e[p].Primary) =>
            /\ lookups[p] = <<>>
            /\ Went(p, "buildSingularityInfo") =>
                 /\ Resolved(p)
                 /\ singularityInfo[p].imageURI = e[p].Primary
                 /\ singularityInfo[p].imageName = e[p].Primary

\* an image file run while a repository with a URL of its own is declared
C8_Witness ==
    \E p \in Procs :
        /\ pc[p] = "done"
        /\ e[p].Primary = "/opt/app.simg"
        /\ kv.declaredFor = e[p].Name
        /\ kv.repository.val = "repo1"
        /\ kv.url.val = "http://h"
        /\ singularityInfo[p].imageURI = "/opt/app.simg"
        /\ transport[p] # <<>>

(***************************************************************************)
(* C9.  The class of an image name is decided by the first of: the         *)
(* docker:// prefix, the shub:// prefix, the .simg or .img suffix.  A      *)
(* non-empty name of no class fails with the error of the unresolvable     *)
(* image: nothing is looked up, the image URI stays unset and no command   *)
(* is run.                                                                 *)
(***************************************************************************)
C9_ClassInOrder ==
    \A p \in Procs :
        Went(p, "buildSingularityInfo") /\ e[p].Primary # "" =>
            LET name == e[p].Primary
                lookedUp == \/ pc[p] = "getRepository"
                            \/ /\ lookups[p] # <<>>
                               /\ lookups[p][1].what = "repository"
                               /\ lookups[p][1].key = e[p].Name
            IN IF HasPrefix(name, "docker://")
               THEN local[p].prefix = "docker://" /\ lookedUp
               ELSE IF HasPrefix(name, "shub://")
               THEN local[p].prefix = "shub://" /\ lookedUp
               ELSE IF IsImageFile(name)
               THEN /\ local[p].prefix = ""
                    /\ lookups[p] = <<>>
                    /\ singularityInfo[p].imageURI = name
                    /\ Resolved(p)
               ELSE /\ pc[p] = "done"
                    /\ result[p] =
                         [returned |-> TRUE, action |-> NilAction, interval |-> 0,
                          err |-> <<BuildFailure,
                                    "Unable to resolve container image URI from image name:\""
                                    \o name \o "\"">>]
                    /\ lookups[p] = <<>>
                    /\ singularityInfo[p].imageURI = ""
                    /\ local[p].cmd = ""
                    /\ transport[p] = <<>>

C9_Witness ==
    \E p \in Procs :
        /\ pc[p] = "done"
        /\ e[p].Primary = "ubuntu"
        /\ result[p].err # Nil
        /\ result[p].err[1] = BuildFailure

(***************************************************************************)
(* C10, as stated: an image name with a prefix resolves to itself when     *)
(* no repository is declared (and then no URL is looked up), when the URL  *)
(* of the repository is empty, and when it is the public registry of the   *)
(* prefix; the public registry of the other prefix is a registry like any  *)
(* other, whose host is put into the image URI.                            *)
(***************************************************************************)
C10_OwnRegistryOnly ==
    \A p \in Procs :
        Exists(p) /\ HasImagePrefix(e[p].Primary) =>
            LET name == e[p].Primary IN
            /\ RepositoryFound(p, "") =>
                 /\ Len(lookups[p]) = 1
                 /\ Resolved(p)
                 /\ singularityInfo[p].imageURI = name
            /\ URLFound(p, "") \/ URLFound(p, OwnRegistry(name)) =>
                 /\ Resolved(p)
                 /\ singularityInfo[p].imageURI = name
            /\ URLFound(p, OtherRegistry(name)) =>
                 /\ Resolved(p)
                 /\ singularityInfo[p].imageURI =
                      PrefixOf(name) \o OtherRegistryHost(name) \o "/"
                      \o AfterPrefix(name, PrefixOf(name))

(***************************************************************************)
(* C10, amended.  An image name with a prefix resolves to itself when no   *)
(* repository is declared (and then no URL is looked up), when the URL of  *)
(* the repository is empty, and when it is one of the two public           *)
(* registries, whichever the prefix.                                       *)
(***************************************************************************)
C10_Unchanged ==
    \A p \in Procs :
        Exists(p) /\ HasImagePrefix(e[p].Primary) =>
            LET name == e[p].Primary IN
            /\ RepositoryFound(p, "") =>
                 /\ Len(lookups[p]) = 1
                 /\ Resolved(p)
                 /\ singularityInfo[p].imageURI = name
            /\ \/ URLFound(p, "")
               \/ URLFound(p, "https://hub.docker.com/")
               \/ URLFound(p, "https://singularity-hub.org/")
               => /\ Resolved(p)
                  /\ singularityInfo[p].imageURI = name

\* an image of the docker hub whose repository is the singularity hub
C10_Witness ==
    \E p \in Procs :
        /\ pc[p] = "done"
        /\ e[p].Primary = "docker://ubuntu"
        /\ URLFound(p, "https://singularity-hub.org/")
        /\ singularityInfo[p].imageURI = "docker://ubuntu"
        /\ transport[p] # <<>>

(***************************************************************************)
(* What the property on the letter case reads of two executions.           *)
(***************************************************************************)
\* what buildJobInfo found for the execution
SettingsOf(p) ==
    [built |-> jobInfo[p].built, batchMode |-> jobInfo[p].batchMode,
     execArgs |-> jobInfo[p].execArgs, opts |-> jobInfo[p].opts]

\* the collaborators answered both executions alike, wherever both asked
SameAnswers(p, q) ==
    /\ SettingsOf(p) = SettingsOf(q)
    /\ \A i \in DOMAIN transport[p] \cap DOMAIN transport[q] :
         /\ transport[p][i].output = transport[q][i].output
         /\ transport[p][i].err = transport[q][i].err
    /\ Went(p, "retrieveJobID") /\ Went(q, "retrieveJobID") =>
         jobInfo[p].ID = jobInfo[q].ID

Found(p) == [i \in DOMAIN lookups[p] |-> [what |-> lookups[p][i].what,
                                           answer |-> lookups[p][i].answer]]

\* the command of the execution without the name of its redirect file
CommandOf(p) ==
    IF local[p].redirectFile = "" THEN local[p].cmd
    ELSE SubSeq(local[p].cmd, 1, Len(local[p].cmd) - Len(local[p].redirectFile) - 2)

C12_RedirectFileNew ==
    \A p \in Procs :
        Went(p, "runJobCommand") /\ ~jobInfo[p].batchMode =>
            LET redirectFile == local[p].redirectFile IN
            /\ redirectFile # ""
            /\ HasSuffix(local[p].cmd, " > " \o redirectFile \o " &")
            /\ \A i \in DOMAIN transport[p] :
                 HasSuffix(transport[p][i].cmd, " > " \o redirectFile \o " &")
            /\ jobInfo[p].outputs = <<redirectFile>>
            /\ \A q \in Procs \ {p} : local[q].redirectFile # redirectFile

\* two interactive executions, each of which gave its command to the client
C12_Witness ==
    \A p \in Procs :
        /\ pc[p] = "done"
        /\ ~jobInfo[p].batchMode
        /\ local[p].redirectFile # ""
        /\ transport[p] # <<>>

(***************************************************************************)
(* What the property on the job identifier reads of an output.             *)
(***************************************************************************)
\* the position of the last character of s that is no white space, 0 if none
EndOfLastToken(s) ==
    LET ends == {i \in 1..Len(s) : Ch(s, i) \notin {" ", "\n", "\t"}}
    IN IF ends = {} THEN 0 ELSE CHOOSE i \in ends : \A j \in ends : j <= i

\* the last token of s: what stands between the last white space before its
\* last character that is none and that character
LastToken(s) ==
    LET end == EndOfLastToken(s)
        gaps == {i \in 1..end : Ch(s, i) \in {" ", "\n", "\t"}}
        start == IF gaps = {} THEN 1
                 ELSE (CHOOSE i \in gaps : \A j \in gaps : j <= i) + 1
    IN IF end = 0 THEN "" ELSE SubSeq(s, start, end)

(***************************************************************************)
(* C13.  In batch mode, once the client has answered without an error,     *)
(* the identifier of the job is the last token of the output ("Submitted   *)
(* batch job 4821" gives "4821").  An output without a token fails the     *)
(* execution with the error of the job identifier: no identifier is        *)
(* assigned, no action is returned and the command is not given again.     *)
(***************************************************************************)
C13_JobIDIsLastToken ==
    \A p \in Procs :
        /\ jobInfo[p].batchMode
        /\ transport[p] # <<>>
        /\ transport[p][1].err = Nil
        => LET output == transport[p][1].output IN
           /\ Len(transport[p]) = 1
           /\ jobInfo[p].ID = LastToken(output)
           /\ output = "Submitted batch job 4821\n" => jobInfo[p].ID = "4821"
           /\ IF LastToken(output) = ""
              THEN /\ pc[p] = "done"
                   /\ result[p].action = NilAction
                   /\ result[p].interval = 0
                   /\ result[p].err =
                        <<"failed to run command">>
                        \o JobIDParseError(Trim(output, "\n"))
              ELSE /\ pc[p] \in {"buildJobMonitoringAction", "done"}
                   /\ pc[p] = "done" =>
                        /\ result[p].err = Nil
                        /\ result[p].action.jobID = LastToken(output)

\* the job of the acknowledgment "Submitted batch job 4821" is monitored
C13_Witness ==
    \E p \in Procs :
        /\ pc[p] = "done"
        /\ jobInfo[p].batchMode
        /\ transport[p] # <<>>
        /\ transport[p][1].output = "Submitted batch job 4821\n"
        /\ jobInfo[p].ID = "4821"
        /\ result[p].action.jobID = "4821"

(***************************************************************************)
(* C14.  When client.RunCommand returns an error, in batch or interactive  *)
(* mode, executeAsync returns an error that wraps the error of the client  *)
(* and holds the output the client returned, with no action and a zero     *)
(* interval; no job identifier is assigned and the command is not given    *)
(* again.                                                                  *)
(***************************************************************************)
C14_TransportErrorReturned ==
    \A p \in Procs :
        transport[p] # <<>> /\ transport[p][1].err # Nil =>
            /\ Len(transport[p]) = 1
            /\ pc[p] = "done"
            /\ result[p].returned
            /\ result[p].action = NilAction
            /\ result[p].interval = 0
            /\ result[p].err =
                 <<"failed to run command", transport[p][1].output>>
                 \o transport[p][1].err
            /\ jobInfo[p].ID = ""
            /\ ~Went(p, "retrieveJobID")
            /\ ~Went(p, "buildJobMonitoringAction")

\* the client failed an interactive command and said why
C14_Witness ==
    \E p \in Procs :
        /\ pc[p] = "done"
        /\ ~jobInfo[p].batchMode
        /\ jobInfo[p].built
        /\ transport[p] # <<>>
        /\ transport[p][1].err # Nil
        /\ transport[p][1].output # ""
        /\ result[p].err # Nil

C16_ExecOrRun ==
    \A p \in Procs :
        singularityInfo[p].built =>
            LET inputs == e[p].EnvInputs
                execs == {i \in DOMAIN inputs :
                            inputs[i].Name = "exec_command" /\ inputs[i].Value # ""}
                info == singularityInfo[p]
            IN /\ info.command \in {"exec", "run"}
               /\ info.command = "exec" <=> execs # {}
               /\ info.exec # "" => info.command = "exec"
               /\ execs = {} => info.exec = ""
               /\ execs # {} =>
                    info.exec = inputs[CHOOSE i \in execs : \A j \in execs : j <= i].Value

\* two exec_command inputs with a value: the second is the command
C16_Witness ==
    \E p \in Procs :
        /\ pc[p] = "done"
        /\ e[p].EnvInputs = <<[Name |-> "exec_command", Value |-> "hostname"],
                              [Name |-> "exec_command", Value |-> "date"]>>
        /\ singularityInfo[p].built
        /\ singularityInfo[p].command = "exec"
        /\ singularityInfo[p].exec = "date"
        /\ transport[p] # <<>>

(***************************************************************************)
(* What the property on executions side by side reads: the image URI an    *)
(* execution resolves from its own image name and the deployment store.    *)
(***************************************************************************)
OwnImageURI(p) ==
    LET class == ImageClass(e[p].Primary)
        repo == GetOperationImplementationRepository(kv, e[p].Name)
        url == GetRepositoryURLFromName(kv, repo.val)
    IN IF class = FileClass \/ repo.val = "" THEN e[p].Primary
       ELSE ImageURIOf(e[p].Primary, class, url.val).imageURI

(***************************************************************************)
(* C17.  Two executions side by side, their steps in any order: whatever   *)
(* an execution holds it wrote itself, from its own fields and from the    *)
(* answers it was given.  Nothing of it is set before its own call set it, *)
(* its job and singularity information, remote execution directory,        *)
(* command, outputs and log entries are those of its own inputs, and what  *)
(* it returns holds its own deployment and job identifier (the name of the *)
(* redirect file, new with each call, aside).                              *)
(***************************************************************************)
C17_OwnStateOnly ==
    \A p \in Procs :
        /\ ~Went(p, "buildJobInfo") => jobInfo[p] = NoJobInfo
        /\ ~Went(p, "buildSingularityInfo") => singularityInfo[p] = NoSingularityInfo
        /\ ~Went(p, "getRepository") => lookups[p] = <<>>
        /\ ~Went(p, "runJobCommand") =>
             /\ remoteExecDir[p] = ""
             /\ local[p].cmd = ""
             /\ local[p].redirectFile = ""
             /\ jobInfo[p].outputs = <<>>
        /\ ~Went(p, "runCommand") => transport[p] = <<>> /\ jobInfo[p].ID = ""
        /\ pc[p] # "done" => result[p] = NoResult
        /\ jobInfo[p].built => jobInfo[p].inputs = InputsMap(e[p].EnvInputs)
        /\ singularityInfo[p].built =>
             /\ singularityInfo[p].imageName = e[p].Primary
             /\ singularityInfo[p].imageURI \in {"", OwnImageURI(p)}
        /\ Went(p, "runJobCommand") =>
             /\ remoteExecDir[p] = e[p].OperationRemoteBaseDir
             /\ singularityInfo[p].imageURI = OwnImageURI(p)
             /\ \E order \in Orders(DOMAIN jobInfo[p].inputs) :
                  local[p].cmd =
                    IF jobInfo[p].batchMode
                    THEN BatchCommand(Exports(InputsMap(e[p].EnvInputs), order),
                                      local[p].opts, singularityInfo[p],
                                      e[p].OperationRemoteBaseDir)
                    ELSE InteractiveCommand(Exports(InputsMap(e[p].EnvInputs), order),
                                            local[p].opts, singularityInfo[p],
                                            jobInfo[p].execArgs, local[p].redirectFile)
             /\ jobInfo[p].outputs =
                  IF jobInfo[p].batchMode
                  THEN ParseOutputConfigFromOpts(jobInfo[p].opts)
                  ELSE <<local[p].redirectFile>>
        /\ \A i \in DOMAIN transport[p] : transport[p][i].cmd = local[p].cmd
        /\ \A i \in DOMAIN events[p] : events[p][i].deploymentID = e[p].deploymentID
        /\ jobInfo[p].batchMode /\ jobInfo[p].ID # "" =>
             jobInfo[p].ID = LastToken(transport[p][1].output)
        /\ result[p].action # NilAction =>
             result[p].action =
               [built |-> TRUE, deploymentID |-> e[p].deploymentID,
                jobID |-> jobInfo[p].ID,
                timeInterval |-> jobInfo[p].monitoringTimeInterval]

\* both executions returned an action, the one of a batch job of the first
\* deployment, the other of an interactive job of the second
C17_Witness ==
    /\ pc[1] = "done" /\ pc[2] = "done"
    /\ jobInfo[1].batchMode /\ ~jobInfo[2].batchMode
    /\ result[1].action # NilAction /\ result[2].action # NilAction
    /\ result[1].action.deploymentID = "dep1"
    /\ result[2].action.deploymentID = "dep2"
    /\ remoteExecDir[1] = "/work" /\ remoteExecDir[2] = "/work2"
    /\ local[2].redirectFile = "yorc_1"

(***************************************************************************)
(* C18, as stated: doQueryEs reports every failure of the search: when     *)
(* the search returns an error, doQueryEs returns an error, and never a    *)
(* nil error with no hits and no values.                                   *)
(***************************************************************************)
C18_SearchFailureReported ==
    queryCall.returned /\ queryCall.answer[1].err # Nil =>
        /\ queryCall.err # Nil
        /\ queryCall.err[1] = "Failed to perform ES search on index logs, query was: <{}>, error was: <nil>"

\* the create requests a call of initStorageIndex sent
CreateRequests(c) ==
    {i \in DOMAIN initCall[c].requests : initCall[c].requests[i].kind = "create"}

(***************************************************************************)
(* C19, as stated: initStorageIndex creates the index if and only if it is *)
(* not found: 200 sends no create request and returns nil, 404 sends one   *)
(* create request and returns its outcome, another status returns an error *)
(* and creates nothing; and of two calls for the same index side by side,  *)
(* neither fails because the other created the index first.                *)
(***************************************************************************)
C19_CreatedOnceNobodyFails ==
    /\ \A c \in Callers :
         initCall[c].returned =>
            LET requests == initCall[c].requests
                found == requests[1].StatusCode
            IN /\ requests[1].kind = "exists"
               /\ found = 200 =>
                    CreateRequests(c) = {} /\ initCall[c].err = Nil
               /\ found = 404 =>
                    /\ Cardinality(CreateRequests(c)) = 1
                    /\ initCall[c].err = Nil <=> requests[2].StatusCode = 200
               /\ found \notin {200, 404} =>
                    CreateRequests(c) = {} /\ initCall[c].err # Nil
    /\ \A c, d \in Callers :
         /\ c # d
         /\ initCall[c].returned /\ initCall[d].returned
         /\ initCall[c].indexName = initCall[d].indexName
         /\ \E i \in CreateRequests(d) : initCall[d].requests[i].StatusCode = 200
         => ~(/\ initCall[c].err # Nil
              /\ \E i \in CreateRequests(c) :
                    initCall[c].requests[i].StatusCode = AlreadyExists)

(***************************************************************************)
(* C20, as stated: the lastIndex of a doQueryEs that returns no error is   *)
(* at least its waitIndex, is the waitIndex when no value is returned, and *)
(* is at least the LastModifyIndex of every value returned, in either      *)
(* order; the values are the hits whose iid is a number, in the order of   *)
(* the response.                                                           *)
(***************************************************************************)
C20_LastIndexForward ==
    queryCall.returned /\ queryCall.err = Nil =>
        LET hits == queryCall.answer[1].hits
            numbered == {i \in DOMAIN hits :
                           \A k \in 1..Len(hits[i].iid) : IsDigit(Ch(hits[i].iid, k))}
        IN /\ queryCall.lastIndex >= queryCall.waitIndex
           /\ queryCall.values = <<>> => queryCall.lastIndex = queryCall.waitIndex
           /\ \A i \in DOMAIN queryCall.values :
                queryCall.lastIndex >= queryCall.values[i].LastModifyIndex
           /\ Len(queryCall.values) = Cardinality(numbered)
           /\ \A i \in DOMAIN queryCall.values :
                \E k \in numbered :
                    /\ queryCall.values[i].Key = hits[k].id
                    /\ Cardinality({j \in numbered : j < k}) = i - 1

====
